---------------------------- MODULE Spec2Model ----------------------------
(***************************************************************************)
(* Virtual Ecosystem Simulator: the perturbation composer, the derivative  *)
(* evaluators and the integration drivers of ecosystem_model.py and        *)
(* multispecies.py, and the metrics of utils.py.                           *)
(*                                                                         *)
(* Python floats are modelled as exact rationals <<n, d>> with d > 0 in    *)
(* lowest terms, so equalities below are equalities of real numbers, not   *)
(* of rounded doubles.                                                     *)
(***************************************************************************)
EXTENDS Integers, Sequences, FiniteSets, TLC

(***************************************************************************)
(* Bounds of the model.                                                    *)
(***************************************************************************)
MaxEvents == 2
MaxSpecies == 2
StepSize == 10
MaxPop == 20

\* np.linspace(0, time_span, 1000)
NumPoints == 1000

(***************************************************************************)
(* Rational arithmetic.                                                    *)
(***************************************************************************)
Abs(n) == IF n < 0 THEN -n ELSE n

RECURSIVE GCD(_, _)
GCD(a, b) == IF b = 0 THEN a ELSE GCD(b, a % b)

Rat(n, d) ==
    LET s == IF d < 0 THEN -1 ELSE 1
        g == GCD(Abs(n), Abs(d))
    IN  <<(s * n) \div g, (s * d) \div g>>

R(n) == <<n, 1>>
\* sums are formed over the least common denominator to keep numbers small
RAdd(a, b) ==
    LET g == GCD(a[2], b[2])
    IN  Rat(a[1] * (b[2] \div g) + b[1] * (a[2] \div g), (a[2] \div g) * b[2])
RNeg(a) == <<-a[1], a[2]>>
RSub(a, b) == RAdd(a, RNeg(b))
\* products cancel cross factors before multiplying
RMul(a, b) ==
    LET g1 == GCD(Abs(a[1]), b[2])
        g2 == GCD(Abs(b[1]), a[2])
    IN  Rat((a[1] \div g1) * (b[1] \div g2), (a[2] \div g2) * (b[2] \div g1))
RDiv(a, b) == RMul(a, Rat(b[2], b[1]))
RLe(a, b) == a[1] * b[2] <= b[1] * a[2]
RLt(a, b) == a[1] * b[2] < b[1] * a[2]
RMin(a, b) == IF RLe(a, b) THEN a ELSE b
RMax(a, b) == IF RLe(a, b) THEN b ELSE a
Zero == R(0)
One == R(1)

RECURSIVE Sum(_)
\* the sum of a sequence of numbers
Sum(s) == IF s = <<>> THEN Zero ELSE RAdd(Head(s), Sum(Tail(s)))

(***************************************************************************)
(* Parameter sets: Python dicts, modelled as functions on their keys.      *)
(***************************************************************************)
RateKeys == {"alpha", "beta", "gamma", "delta"}

Params(a, b, g, d) ==
    [k \in RateKeys |->
        CASE k = "alpha" -> a
          [] k = "beta" -> b
          [] k = "gamma" -> g
          [] k = "delta" -> d]

\* dict[key] = value on a copy
SetKey(p, key, value) ==
    [k \in DOMAIN p \cup {key} |-> IF k = key THEN value ELSE p[k]]

\* dict.get(key, default)
Get(p, key, default) == IF key \in DOMAIN p THEN p[key] ELSE default

(***************************************************************************)
(* apply_environmental_change: one branch per event type.  `scale` is      *)
(* intensity / 100.0; every assignment reads base_params and writes the    *)
(* copy.                                                                   *)
(***************************************************************************)
Scale(intensity) == RDiv(intensity, R(100))

\* base * (1 + scale * num/den)
Up(base, scale, num, den) == RMul(base, RAdd(One, RMul(scale, Rat(num, den))))
\* base * (1 - scale * num/den)
Down(base, scale, num, den) == RMul(base, RSub(One, RMul(scale, Rat(num, den))))

\* both species changed whatever the affected species
TemperatureIncreaseUnselective(base_params, scale, affected_species) ==
    SetKey(SetKey(SetKey(SetKey(base_params,
        "alpha", Down(base_params["alpha"], scale, 3, 10)),
        "beta", Up(base_params["beta"], scale, 2, 10)),
        "gamma", Up(base_params["gamma"], scale, 4, 10)),
        "delta", Down(base_params["delta"], scale, 1, 10))

TemperatureIncrease(base_params, scale, affected_species) ==
    LET p1 == IF affected_species \in {"prey", "both"}
              THEN SetKey(SetKey(base_params,
                       "alpha", Down(base_params["alpha"], scale, 3, 10)),
                       "beta", Up(base_params["beta"], scale, 2, 10))
              ELSE base_params
    IN  IF affected_species \in {"predator", "both"}
        THEN SetKey(SetKey(p1,
                 "gamma", Up(base_params["gamma"], scale, 4, 10)),
                 "delta", Down(base_params["delta"], scale, 1, 10))
        ELSE p1

\* the second branch continuing from the value the first one ends at
HabitatLossContinuous(base_params, scale, affected_species) ==
    LET p1 == IF affected_species \in {"prey", "both"}
              THEN SetKey(SetKey(base_params,
                       "alpha", Down(base_params["alpha"], scale, 5, 10)),
                       "beta", Up(base_params["beta"], scale, 3, 10))
              ELSE base_params
    IN  IF affected_species \in {"predator", "both"}
        THEN SetKey(SetKey(p1,
                 "gamma", Up(base_params["gamma"], scale, 2, 10)),
                 "delta",
                 IF RLt(scale, Rat(5, 10))
                 THEN Up(base_params["delta"], scale, 2, 10)
                 ELSE RMul(base_params["delta"],
                           RSub(Rat(11, 10),
                                RMul(RSub(scale, Rat(5, 10)), Rat(4, 10)))))
        ELSE p1

HabitatLoss(base_params, scale, affected_species) ==
    LET p1 == IF affected_species \in {"prey", "both"}
              THEN SetKey(SetKey(base_params,
                       "alpha", Down(base_params["alpha"], scale, 5, 10)),
                       "beta", Up(base_params["beta"], scale, 3, 10))
              ELSE base_params
    IN  IF affected_species \in {"predator", "both"}
        THEN SetKey(SetKey(p1,
                 "gamma", Up(base_params["gamma"], scale, 2, 10)),
                 "delta",
                 IF RLt(scale, Rat(5, 10))
                 THEN Up(base_params["delta"], scale, 2, 10)
                 ELSE Down(base_params["delta"], RSub(scale, Rat(5, 10)), 4, 10))
        ELSE p1

\* a reduction by an absolute amount instead of a fraction of the rate
ResourceDepletionAbsolute(base_params, scale, affected_species) ==
    LET p1 == IF affected_species \in {"prey", "both"}
              THEN SetKey(base_params,
                       "alpha", RSub(base_params["alpha"], RMul(scale, Rat(7, 10))))
              ELSE base_params
    IN  IF affected_species \in {"predator", "both"}
        THEN SetKey(p1, "delta", RSub(base_params["delta"], RMul(scale, Rat(3, 10))))
        ELSE p1

ResourceDepletion(base_params, scale, affected_species) ==
    LET p1 == IF affected_species \in {"prey", "both"}
              THEN SetKey(base_params,
                       "alpha", Down(base_params["alpha"], scale, 7, 10))
              ELSE base_params
    IN  IF affected_species \in {"predator", "both"}
        THEN SetKey(p1, "delta", Down(base_params["delta"], scale, 3, 10))
        ELSE p1

\* direct mortality overwritten instead of accumulated
DiseaseOverwrite(base_params, scale, affected_species) ==
    CASE affected_species = "prey" ->
            SetKey(SetKey(base_params,
                "alpha", Down(base_params["alpha"], scale, 4, 10)),
                "direct_mortality", RMul(scale, Rat(5, 100)))
      [] affected_species = "predator" ->
            SetKey(base_params,
                "gamma", Up(base_params["gamma"], scale, 6, 10))
      [] affected_species = "both" ->
            SetKey(SetKey(SetKey(base_params,
                "alpha", Down(base_params["alpha"], scale, 3, 10)),
                "gamma", Up(base_params["gamma"], scale, 4, 10)),
                "direct_mortality", RMul(scale, Rat(3, 100)))
      [] OTHER -> base_params

\* the same mortality rate whether the prey or both are affected
DiseaseSameRate(base_params, scale, affected_species) ==
    CASE affected_species = "prey" ->
            SetKey(SetKey(base_params,
                "alpha", Down(base_params["alpha"], scale, 4, 10)),
                "direct_mortality",
                RAdd(Get(base_params, "direct_mortality", Zero),
                     RMul(scale, Rat(5, 100))))
      [] affected_species = "predator" ->
            SetKey(base_params,
                "gamma", Up(base_params["gamma"], scale, 6, 10))
      [] affected_species = "both" ->
            SetKey(SetKey(SetKey(base_params,
                "alpha", Down(base_params["alpha"], scale, 3, 10)),
                "gamma", Up(base_params["gamma"], scale, 4, 10)),
                "direct_mortality",
                RAdd(Get(base_params, "direct_mortality", Zero),
                     RMul(scale, Rat(5, 100))))
      [] OTHER -> base_params

\* direct mortality not scaled by the intensity
DiseaseFlatMortality(base_params, scale, affected_species) ==
    CASE affected_species = "prey" ->
            SetKey(SetKey(base_params,
                "alpha", Down(base_params["alpha"], scale, 4, 10)),
                "direct_mortality",
                RAdd(Get(base_params, "direct_mortality", Zero), Rat(5, 100)))
      [] affected_species = "predator" ->
            SetKey(base_params,
                "gamma", Up(base_params["gamma"], scale, 6, 10))
      [] affected_species = "both" ->
            SetKey(SetKey(SetKey(base_params,
                "alpha", Down(base_params["alpha"], scale, 3, 10)),
                "gamma", Up(base_params["gamma"], scale, 4, 10)),
                "direct_mortality",
                RAdd(Get(base_params, "direct_mortality", Zero), Rat(3, 100)))
      [] OTHER -> base_params

Disease(base_params, scale, affected_species) ==
    CASE affected_species = "prey" ->
            SetKey(SetKey(base_params,
                "alpha", Down(base_params["alpha"], scale, 4, 10)),
                "direct_mortality",
                RAdd(Get(base_params, "direct_mortality", Zero),
                     RMul(scale, Rat(5, 100))))
      [] affected_species = "predator" ->
            SetKey(base_params,
                "gamma", Up(base_params["gamma"], scale, 6, 10))
      [] affected_species = "both" ->
            SetKey(SetKey(SetKey(base_params,
                "alpha", Down(base_params["alpha"], scale, 3, 10)),
                "gamma", Up(base_params["gamma"], scale, 4, 10)),
                "direct_mortality",
                RAdd(Get(base_params, "direct_mortality", Zero),
                     RMul(scale, Rat(3, 100))))
      [] OTHER -> base_params

apply_environmental_change(base_params, env_type, intensity, affected_species) ==
    LET scale == Scale(intensity)
    IN  CASE env_type = "Temperature Increase" ->
                TemperatureIncrease(base_params, scale, affected_species)
          [] env_type = "Habitat Loss" ->
                HabitatLoss(base_params, scale, affected_species)
          [] env_type = "Resource Depletion" ->
                ResourceDepletion(base_params, scale, affected_species)
          [] env_type = "Disease" ->
                Disease(base_params, scale, affected_species)
          [] OTHER -> base_params

(***************************************************************************)
(* Inputs of the evaluator.                                                *)
(***************************************************************************)
EventTypes ==
    {"Temperature Increase", "Habitat Loss", "Resource Depletion", "Disease", "None"}
Species == {"prey", "predator", "both"}
Intensities == {-50, 0, 50, 100}
StartTimes == {0, 1}
Durations == {0, 2}
Times == {0, 1, 2, 3}

\* an event dict; the 'duration' key is optional
EventWith(ty, st, in, sp, du) ==
    [type |-> ty, start_time |-> st, intensity |-> in,
     affected_species |-> sp, duration |-> du]
EventWithout(ty, st, in, sp) ==
    [type |-> ty, start_time |-> st, intensity |-> in, affected_species |-> sp]

EventSet ==
    {EventWith(ty, st, in, sp, du) :
        ty \in EventTypes, st \in StartTimes, in \in Intensities,
        sp \in Species, du \in Durations}
    \cup
    {EventWithout(ty, st, in, sp) :
        ty \in EventTypes, st \in StartTimes, in \in Intensities, sp \in Species}

\* events that occur in lists of two or more: a step to full intensity at
\* time 0 on one species, or a later ramp to a lower intensity on both
CoreEvents ==
    {e \in EventSet :
        /\ e.type # "None"
        /\ "duration" \in DOMAIN e
        /\ <<e.intensity, e.start_time, e.duration>> =
               IF e.affected_species = "both" THEN <<50, 1, 2>> ELSE <<100, 0, 0>>}

RECURSIVE ListsOver(_, _)
ListsOver(S, n) ==
    IF n = 0 THEN {<<>>}
    ELSE {Append(l, e) : l \in ListsOver(S, n - 1), e \in S}

EventLists ==
    {<<>>} \cup {<<e>> : e \in EventSet}
    \cup UNION {ListsOver(CoreEvents, n) : n \in 2..MaxEvents}

BaseParams == {Params(R(0), R(0), R(0), R(0)), Params(R(2), R(1), R(3), R(1))}
Populations == {<<R(2), R(1)>>}

(***************************************************************************)
(* Inputs of the integration drivers.                                      *)
(***************************************************************************)
TimeSpans == {10, 20}
ChangeStarts == {0, 5, 10}
ChangeIntensities == {0, 40, 100}
RateSets == {<<0, 0, 0, 0>>, <<2, 1, 3, 1>>}
InitialStates == {<<2, 1>>}

Filled(n, v) == [i \in 1..n |-> v]

\* an optional argument: None, or the list that was passed
NotGiven == [given |-> FALSE]
Given(list) == [given |-> TRUE, list |-> list]

LotkaArgs ==
    {[rates |-> r, initial |-> i, time_span |-> ts] :
        r \in RateSets, i \in InitialStates, ts \in TimeSpans}

HabitatArgs ==
    {[rates |-> r, initial |-> i, time_span |-> ts, env_change_type |-> ty,
      env_change_start |-> st, env_change_intensity |-> in] :
        r \in RateSets, i \in InitialStates, ts \in TimeSpans,
        ty \in EventTypes, st \in ChangeStarts, in \in ChangeIntensities}

Rows(m) ==
    {[i \in 1..m |-> Filled(lens[i], R(a))] :
        lens \in [1..m -> 1..MaxSpecies], a \in {0, -1}}

MultiArgs ==
    {[species_names |-> Filled(n, "species"),
      growth_rates |-> Filled(lg, R(g)),
      interaction_matrix |-> mx,
      initial_populations |-> Filled(lp, R(2)),
      carrying_capacities |-> cc,
      time_span |-> ts] :
        n \in 1..MaxSpecies, lg \in 1..MaxSpecies, g \in {1, -1},
        mx \in UNION {Rows(m) : m \in 1..MaxSpecies},
        lp \in 1..MaxSpecies,
        cc \in {NotGiven} \cup {Given(Filled(lc, R(5))) : lc \in 1..MaxSpecies},
        ts \in TimeSpans}

(***************************************************************************)
(* State.                                                                  *)
(***************************************************************************)
VARIABLES
    pc,                  \* control point of the running call
    fn,                  \* the entry point that was called
    args,                \* arguments of a driver call
    locals,              \* locals of the driver
    sol,                 \* state of solve_ivp
    outcome,             \* what the driver call produced
    first,               \* outcome of the previous call with the same arguments
    t, y,                \* evaluator arguments: time and populations
    base_params,         \* evaluator argument
    env_changes,         \* evaluator argument
    current_params,      \* evaluator local: the running parameter set
    idx,                 \* evaluator: position of the for loop (1-based)
    effective_intensity, \* evaluator local, None until first assigned
    handed,              \* per event of this call: the intensity handed to
                         \* the transform, None for an event that was skipped
    dydt,                \* value returned by the evaluator
    objects,             \* the dict objects of the evaluator call: their
                         \* contents, and the ones that the names
                         \* base_params and current_params are bound to
    prev                 \* the previous call of the evaluator by the same caller

evalVars ==
    <<t, y, base_params, env_changes, current_params, idx,
      effective_intensity, handed, dydt, objects>>
driverVars == <<args, locals, sol, outcome, first>>
vars == <<pc, fn, driverVars, evalVars, prev>>

None == <<>>
Nothing == [kind |-> "none"]
NoPrev == [how |-> "none"]
NoObjects == [store |-> <<>>]

\* no new object: the name is bound to the object that was to be copied
Aliased(store, id) == [store |-> store, id |-> id]

\* dict.copy(): a new object with the keys and values of the object id
CopyOf(store, id) == [store |-> Append(store, store[id]), id |-> Len(store) + 1]

\* the objects once current_params = base_params.copy() has run on the
\* caller's dict
Entered(base) ==
    LET c == CopyOf(<<base>>, 1)
    IN  [store |-> c.store, base_params |-> 1, current_params |-> c.id]

\* current_params = apply_environmental_change(current_params, ...): the
\* function copies the dict it is given, writes the changed rates into the
\* copy and returns the copy
Applied(objs, env_type, intensity, affected_species) ==
    LET c == CopyOf(objs.store, objs.current_params)
        params ==
            apply_environmental_change(
                objs.store[objs.current_params], env_type, intensity, affected_species)
    IN  [store |-> [c.store EXCEPT ![c.id] = params],
         base_params |-> objs.base_params,
         current_params |-> c.id]

(***************************************************************************)
(* lotka_volterra_system and lotka_volterra_with_env_change                *)
(***************************************************************************)
lotka_volterra_system(time, state, params) ==
    LET prey == state[1]
        predator == state[2]
        alpha == params["alpha"]
        beta == params["beta"]
        gamma == params["gamma"]
        delta == params["delta"]
    IN  <<RSub(RMul(alpha, prey), RMul(RMul(beta, prey), predator)),
          RSub(RMul(RMul(delta, prey), predator), RMul(gamma, predator))>>

\* the start time is not consulted
IsActiveAlways(time, change) == TRUE

\* an event counted as started one time unit early
IsActiveEarly(time, change) == RLe(R(change.start_time), RAdd(time, One))

\* if t >= change['start_time']
IsActive(time, change) == RLe(R(change.start_time), time)

\* the ramp: 'duration' in change and change['duration'] > 0
HasRamp(change) == "duration" \in DOMAIN change /\ change.duration > 0

\* the ramp without min(1.0, ...)
EffectiveIntensityNoClamp(time, change) ==
    IF "duration" \in DOMAIN change /\ change.duration > 0
    THEN RMul(R(change.intensity),
              RDiv(RSub(time, R(change.start_time)), R(change.duration)))
    ELSE R(change.intensity)

\* the ramp measured from time 0 instead of from start_time
EffectiveIntensityFromZero(time, change) ==
    IF "duration" \in DOMAIN change /\ change.duration > 0
    THEN RMul(R(change.intensity), RMin(One, RDiv(time, R(change.duration))))
    ELSE R(change.intensity)

EffectiveIntensity(time, change) ==
    IF HasRamp(change)
    THEN LET progress ==
                 RMin(One, RDiv(RSub(time, R(change.start_time)), R(change.duration)))
         IN  RMul(R(change.intensity), progress)
    ELSE R(change.intensity)

\* the equations without the mortality terms
DerivativeWithoutMortality(params, state) ==
    LET prey == state[1]
        predator == state[2]
    IN  <<RSub(RMul(params["alpha"], prey),
               RMul(RMul(params["beta"], prey), predator)),
          RSub(RMul(RMul(params["delta"], prey), predator),
               RMul(params["gamma"], predator))>>

\* the mortality subtracted from the prey only
DerivativePreyMortalityOnly(params, state) ==
    LET prey == state[1]
        predator == state[2]
        dPrey_dt == RSub(RMul(params["alpha"], prey),
                         RMul(RMul(params["beta"], prey), predator))
        dPredator_dt == RSub(RMul(RMul(params["delta"], prey), predator),
                             RMul(params["gamma"], predator))
    IN  IF "direct_mortality" \in DOMAIN params
        THEN <<RSub(dPrey_dt, RMul(params["direct_mortality"], prey)), dPredator_dt>>
        ELSE <<dPrey_dt, dPredator_dt>>

\* the equations after the loop
Derivative(params, state) ==
    LET prey == state[1]
        predator == state[2]
        alpha == params["alpha"]
        beta == params["beta"]
        gamma == params["gamma"]
        delta == params["delta"]
        dPrey_dt == RSub(RMul(alpha, prey), RMul(RMul(beta, prey), predator))
        dPredator_dt == RSub(RMul(RMul(delta, prey), predator), RMul(gamma, predator))
    IN  IF "direct_mortality" \in DOMAIN params
        THEN <<RSub(dPrey_dt, RMul(params["direct_mortality"], prey)),
               RSub(dPredator_dt, RMul(params["direct_mortality"], predator))>>
        ELSE <<dPrey_dt, dPredator_dt>>

\* entry: current_params = base_params.copy(), loop at its first event
Enter(time, state, base, changes) ==
    /\ t' = time
    /\ y' = state
    /\ base_params' = base
    /\ env_changes' = changes
    /\ current_params' = base
    /\ objects' = Entered(base)
    /\ idx' = 1
    /\ effective_intensity' = None
    /\ handed' = <<>>
    /\ dydt' = None
    /\ pc' = "loop"

\* the transform applied to base_params instead of current_params
LoopApplyToBase ==
    /\ pc = "loop"
    /\ idx <= Len(env_changes)
    /\ RLe(R(env_changes[idx].start_time), t)
    /\ LET change == env_changes[idx]
           eff == IF "duration" \in DOMAIN change /\ change.duration > 0
                  THEN RMul(R(change.intensity),
                            RMin(One, RDiv(RSub(t, R(change.start_time)),
                                           R(change.duration))))
                  ELSE R(change.intensity)
       IN  /\ effective_intensity' = eff
           /\ handed' = Append(handed, eff)
           /\ current_params' =
                  apply_environmental_change(
                      base_params, change.type, eff, change.affected_species)
           /\ objects' =
                  [objects EXCEPT
                      !.store =
                          Append(@, apply_environmental_change(
                                        base_params, change.type, eff,
                                        change.affected_species)),
                      !.current_params = Len(objects.store) + 1]
    /\ idx' = idx + 1
    /\ UNCHANGED <<pc, fn, args, locals, sol, outcome, first,
                   t, y, base_params, env_changes, dydt, prev>>

\* one iteration of the for loop on an active event
LoopApply ==
    /\ pc = "loop"
    /\ idx <= Len(env_changes)
    /\ IsActive(t, env_changes[idx])
    /\ LET change == env_changes[idx]
           eff == EffectiveIntensity(t, change)
       IN  /\ effective_intensity' = eff
           /\ handed' = Append(handed, eff)
           /\ objects' = Applied(objects, change.type, eff, change.affected_species)
           /\ current_params' = objects'.store[objects'.current_params]
    /\ idx' = idx + 1
    /\ UNCHANGED <<pc, fn, driverVars, t, y, base_params, env_changes, dydt, prev>>

\* one iteration of the for loop on an event that has not started
LoopSkip ==
    /\ pc = "loop"
    /\ idx <= Len(env_changes)
    /\ ~IsActive(t, env_changes[idx])
    /\ idx' = idx + 1
    /\ handed' = Append(handed, None)
    /\ UNCHANGED <<pc, fn, driverVars, t, y, base_params, env_changes,
                   current_params, effective_intensity, dydt, objects, prev>>

\* the loop is over: compute and return the derivatives, to the solver when
\* the solver made the call
Return ==
    /\ pc = "loop"
    /\ idx > Len(env_changes)
    /\ dydt' = Derivative(current_params, y)
    /\ pc' = IF fn = "lotka_volterra_with_env_change" THEN "done" ELSE "step"
    /\ UNCHANGED <<fn, driverVars, t, y, base_params, env_changes, current_params,
                   idx, effective_intensity, handed, objects, prev>>

Swap(list, i) ==
    [k \in 1..Len(list) |->
        IF k = i THEN list[i + 1] ELSE IF k = i + 1 THEN list[i] ELSE list[k]]

\* what the caller keeps of a finished call
Finished(how) ==
    [how |-> how, t |-> t, env_changes |-> env_changes, handed |-> handed,
     params |-> current_params, dydt |-> dydt]

\* the caller evaluates again with two neighbouring events exchanged
Reorder ==
    /\ pc = "done"
    /\ \E i \in 1..(Len(env_changes) - 1) :
           Enter(t, y, base_params, Swap(env_changes, i))
    /\ prev' = Finished("reordered")
    /\ UNCHANGED <<fn, driverVars>>

\* the caller evaluates again at a later time, as the solver does
Advance ==
    /\ pc = "done"
    /\ \E later \in Times :
           /\ RLt(t, R(later))
           /\ Enter(R(later), y, base_params, env_changes)
    /\ prev' = Finished("advanced")
    /\ UNCHANGED <<fn, driverVars>>

(***************************************************************************)
(* multi_species_system                                                    *)
(***************************************************************************)
\* float('inf'), the capacity of a species that is not constrained
Inf == <<1, 0>>

\* the value of an expression that divides by zero: inf or nan for NumPy
\* numbers
NonFinite == <<0, 0>>
Finite(v) == \A i \in 1..Len(v) : v[i] # NonFinite

\* x / K; x / inf is 0, x / 0 is not finite
OverCapacity(x, K) ==
    IF K = Inf THEN Zero ELSE IF K = Zero THEN NonFinite ELSE RDiv(x, K)

RECURSIVE InteractionsWithDiagonal(_, _, _, _)
\* the inner loop without the test i != j
InteractionsWithDiagonal(row, state, i, j) ==
    IF j > Len(state) THEN Zero
    ELSE RAdd(RMul(RMul(row[j], state[i]), state[j]),
              InteractionsWithDiagonal(row, state, i, j + 1))

RECURSIVE Interactions(_, _, _, _)
\* the inner loop over j, from j up to num_species
Interactions(row, state, i, j) ==
    IF j > Len(state) THEN Zero
    ELSE RAdd(IF i # j THEN RMul(RMul(row[j], state[i]), state[j]) ELSE Zero,
              Interactions(row, state, i, j + 1))

\* crowding by the total population instead of the species' own
multi_species_system_shared_capacity(time, state, params) ==
    LET num_species == Len(state)
        growth_rates == params["growth_rates"]
        interaction_matrix == params["interaction_matrix"]
        carrying_capacities ==
            Get(params, "carrying_capacities", Filled(num_species, Inf))
        total == Sum(state)
    IN  [i \in 1..num_species |->
            RAdd(RMul(RMul(growth_rates[i], state[i]),
                      RSub(One, OverCapacity(total, carrying_capacities[i]))),
                 Interactions(interaction_matrix[i], state, i, 1))]

\* a capacity of zero taken as no constraint
multi_species_system_zero_guarded(time, state, params) ==
    LET num_species == Len(state)
        growth_rates == params["growth_rates"]
        interaction_matrix == params["interaction_matrix"]
        carrying_capacities ==
            Get(params, "carrying_capacities", Filled(num_species, Inf))
    IN  [i \in 1..num_species |->
            RAdd(RMul(RMul(growth_rates[i], state[i]),
                      RSub(One,
                           IF carrying_capacities[i] = Zero THEN Zero
                           ELSE OverCapacity(state[i], carrying_capacities[i]))),
                 Interactions(interaction_matrix[i], state, i, 1))]

\* a term that is not finite makes the derivative of its species not finite
multi_species_system(time, state, params) ==
    LET num_species == Len(state)
        growth_rates == params["growth_rates"]
        interaction_matrix == params["interaction_matrix"]
        carrying_capacities ==
            Get(params, "carrying_capacities", Filled(num_species, Inf))
    IN  [i \in 1..num_species |->
            IF OverCapacity(state[i], carrying_capacities[i]) = NonFinite
            THEN NonFinite
            ELSE RAdd(RMul(RMul(growth_rates[i], state[i]),
                           RSub(One, OverCapacity(state[i], carrying_capacities[i]))),
                      Interactions(interaction_matrix[i], state, i, 1))]

\* a direct call of multi_species_system(t, y, params) with plain Python
\* numbers, for which a division by zero raises ZeroDivisionError
CallSystem ==
    /\ pc = "call"
    /\ fn = "multi_species_system"
    /\ t' = args.t
    /\ y' = args.y
    /\ IF Finite(multi_species_system(args.t, args.y, args.params))
       THEN /\ dydt' = multi_species_system(args.t, args.y, args.params)
            /\ pc' = "done"
            /\ UNCHANGED outcome
       ELSE /\ outcome' = [kind |-> "raised", error |-> "ZeroDivisionError",
                           message |-> "float division by zero"]
            /\ pc' = "raised"
            /\ UNCHANGED dydt
    /\ UNCHANGED <<fn, args, locals, sol, first, base_params, env_changes,
                   current_params, idx, effective_intensity, handed, objects, prev>>

(***************************************************************************)
(* Inputs of multi_species_system: populations 0, 2 and 5, growth rates    *)
(* of both signs, a matrix with one value on the diagonal, one above and   *)
(* one below it, and capacities that are absent, 5, unconstrained, or      *)
(* unconstrained for the first species only.                               *)
(***************************************************************************)
Matrix(n, d, u, l) ==
    [i \in 1..n |-> [j \in 1..n |-> R(IF i = j THEN d ELSE IF i < j THEN u ELSE l)]]

SystemParams(n) ==
    LET without ==
            {[k \in {"growth_rates", "interaction_matrix"} |->
                 IF k = "growth_rates" THEN [i \in 1..n |-> R(g * i)]
                 ELSE Matrix(n, d, u, l)] :
                 g \in {1, -1}, d \in {0, 3}, u \in {0, -1}, l \in {0, 1, 2}}
        capacities ==
            {Filled(n, R(5)), Filled(n, Inf), [i \in 1..n |-> IF i = 1 THEN Inf ELSE R(5)]}
    IN  without \cup {SetKey(p, "carrying_capacities", c) : p \in without, c \in capacities}

SystemStates(n) == [1..n -> {R(0), R(2), R(5)}]

SystemArgs ==
    UNION {{[t |-> Zero, y |-> x, params |-> p] : x \in SystemStates(n), p \in SystemParams(n)} :
              n \in 1..MaxSpecies}

\* capacities whose first entry is zero
ZeroFirst(n) == [i \in 1..n |-> IF i = 1 THEN Zero ELSE R(5)]

SystemArgsZeroCapacity ==
    UNION {{[t |-> Zero, y |-> x,
             params |-> SetKey(p, "carrying_capacities", ZeroFirst(n))] :
                x \in SystemStates(n),
                p \in {q \in SystemParams(n) : "carrying_capacities" \notin DOMAIN q}} :
              n \in 1..MaxSpecies}

(***************************************************************************)
(* solve_ivp(f, (0, time_span), y0, method='RK45', t_eval=linspace): the   *)
(* library solver, abstracted.  It advances by explicit steps of at most   *)
(* StepSize, one evaluation of f per step; a step from a state whose       *)
(* magnitude exceeds MaxPop fails (the step size underflow of a blow-up),  *)
(* which ends the integration with status "failed" and the report points   *)
(* passed so far.  The reported solution holds the points of t_eval that   *)
(* lie in the integrated range, populations interpolated between steps.    *)
(***************************************************************************)
NoSol == [status |-> "none"]
NewSol(y0) ==
    [status |-> "running", t |-> Zero, y |-> y0, nodes |-> <<<<Zero, y0>>>>]

RAbs(a) == <<Abs(a[1]), a[2]>>
Blown(state) == \E i \in 1..Len(state) : RLt(R(MaxPop), RAbs(state[i]))

\* t_eval[i], i from 0: np.linspace(0, time_span, 1000)
linspace(time_span, i) == Rat(i * time_span, NumPoints - 1)

\* len(solution.t): the points of t_eval up to the last accepted step
Reported(s, time_span) ==
    IF Len(s.nodes) < 2 THEN 0
    ELSE ((s.t[1] * (NumPoints - 1)) \div (s.t[2] * time_span)) + 1

RECURSIVE Interpolate(_, _, _)
\* the solution at time tq, from the accepted steps
Interpolate(nodes, k, tq) ==
    IF k = Len(nodes) \/ RLe(tq, nodes[k][1])
    THEN nodes[k][2]
    ELSE IF RLe(tq, nodes[k + 1][1])
    THEN LET t0 == nodes[k][1]
             t1 == nodes[k + 1][1]
             w == RDiv(RSub(tq, t0), RSub(t1, t0))
         IN  [i \in 1..Len(nodes[k][2]) |->
                 RAdd(nodes[k][2][i],
                      RMul(w, RSub(nodes[k + 1][2][i], nodes[k][2][i])))]
    ELSE Interpolate(nodes, k + 1, tq)

\* solution.t[i] and solution.y.T[i] of a returned result, i from 0
TimeAt(res, i) == linspace(res.time_span, i)
RowAt(res, i) == Interpolate(res.nodes, 1, TimeAt(res, i))

\* the solver calls f = lotka_volterra_system or multi_species_system
Evaluate ==
    /\ pc = "solve"
    /\ ~Blown(sol.y)
    /\ fn \in {"run_lotka_volterra", "run_multi_species_simulation"}
    /\ t' = sol.t
    /\ y' = sol.y
    /\ dydt' = IF fn = "run_lotka_volterra"
               THEN lotka_volterra_system(sol.t, sol.y, locals.params)
               ELSE multi_species_system(sol.t, sol.y, locals.params)
    /\ pc' = "step"
    /\ UNCHANGED <<fn, driverVars, base_params, env_changes, current_params,
                   idx, effective_intensity, handed, objects, prev>>

\* the solver calls f = lotka_volterra_with_env_change
EvaluateWithChanges ==
    /\ pc = "solve"
    /\ ~Blown(sol.y)
    /\ fn = "run_habitat_change_simulation"
    /\ Enter(sol.t, sol.y, locals.base_params, locals.env_changes)
    /\ UNCHANGED <<fn, driverVars, prev>>

\* the step is accepted
SolverStep ==
    /\ pc = "step"
    /\ Finite(dydt)
    /\ LET left == RSub(R(args.time_span), sol.t)
           h == RMin(R(StepSize), left)
           tn == RAdd(sol.t, h)
           yn == [i \in 1..Len(sol.y) |-> RAdd(sol.y[i], RMul(h, dydt[i]))]
           over == tn = R(args.time_span)
       IN  /\ sol' = [status |-> IF over THEN "finished" ELSE "running",
                      t |-> tn, y |-> yn,
                      nodes |-> Append(sol.nodes, <<tn, yn>>)]
           /\ pc' = IF over THEN "solved" ELSE "solve"
    /\ UNCHANGED <<fn, args, locals, outcome, first, evalVars, prev>>

\* the step fails: solution.success is False, solution.status is -1
SolverFail ==
    /\ IF pc = "solve" THEN Blown(sol.y) ELSE pc = "step" /\ ~Finite(dydt)
    /\ sol' = [sol EXCEPT !.status = "failed"]
    /\ pc' = "solved"
    /\ UNCHANGED <<fn, args, locals, outcome, first, evalVars, prev>>

(***************************************************************************)
(* run_lotka_volterra                                                      *)
(***************************************************************************)
RatesOf(a) == Params(R(a.rates[1]), R(a.rates[2]), R(a.rates[3]), R(a.rates[4]))
StateOf(a) == <<R(a.initial[1]), R(a.initial[2])>>

CallLotka ==
    /\ pc = "call"
    /\ fn = "run_lotka_volterra"
    /\ locals' = [params |-> RatesOf(args), y0 |-> StateOf(args)]
    /\ sol' = NewSol(StateOf(args))
    /\ pc' = "solve"
    /\ UNCHANGED <<fn, args, outcome, first, evalVars, prev>>

\* return solution.t, solution.y.T; when the solver failed before any
\* report point, solve_ivp leaves solution.y an empty list, which has no .T
Solution ==
    IF Len(sol.nodes) < 2
    THEN [kind |-> "raised", error |-> "AttributeError",
          message |-> "'list' object has no attribute 'T'"]
    ELSE [kind |-> "returned", time_span |-> args.time_span,
          length |-> Reported(sol, args.time_span), nodes |-> sol.nodes]

ReturnSolution ==
    /\ pc = "solved"
    /\ fn \in {"run_lotka_volterra", "run_multi_species_simulation"}
    /\ outcome' = Solution
    /\ pc' = Solution.kind
    /\ UNCHANGED <<fn, args, locals, sol, first, evalVars, prev>>

(***************************************************************************)
(* run_habitat_change_simulation                                           *)
(***************************************************************************)
\* random.choice(affected_options) for Disease, "both" otherwise
AffectedOptions(env_change_type) ==
    IF env_change_type = "Disease" THEN {"prey", "predator", "both"} ELSE {"both"}

CallHabitat ==
    /\ pc = "call"
    /\ fn = "run_habitat_change_simulation"
    /\ \E affected_species \in AffectedOptions(args.env_change_type) :
           locals' =
               [base_params |-> RatesOf(args),
                affected_species |-> affected_species,
                env_changes |->
                    <<EventWith(args.env_change_type, args.env_change_start,
                                args.env_change_intensity, affected_species, 10)>>,
                y0 |-> StateOf(args)]
    /\ sol' = NewSol(StateOf(args))
    /\ pc' = "solve"
    /\ UNCHANGED <<fn, args, outcome, first, evalVars, prev>>

\* return solution.t, solution.y.T, events
ReturnHabitat ==
    /\ pc = "solved"
    /\ fn = "run_habitat_change_simulation"
    /\ outcome' =
           [kind |-> "returned", time_span |-> args.time_span,
            length |-> Reported(sol, args.time_span), nodes |-> sol.nodes,
            events |->
                <<[time |-> args.env_change_start,
                   description |-> <<args.env_change_type, " begins">>,
                   type |-> args.env_change_type,
                   intensity |-> args.env_change_intensity,
                   affected |-> locals.affected_species]>>]
    /\ pc' = "returned"
    /\ UNCHANGED <<fn, args, locals, sol, first, evalVars, prev>>

(***************************************************************************)
(* run_multi_species_simulation                                            *)
(***************************************************************************)
\* calls that pass capacities whose first entry is zero
MultiArgsZeroCapacity ==
    {[a EXCEPT !.carrying_capacities = Given(ZeroFirst(Len(a.species_names)))] :
        a \in {b \in MultiArgs : b.carrying_capacities = NotGiven}}

\* 1000 replaced by no constraint
DefaultedCapacitiesUnconstrained(a) ==
    IF a.carrying_capacities.given
    THEN a.carrying_capacities.list
    ELSE Filled(Len(a.species_names), Inf)

\* the validation without the check of the rows' lengths
ValidationErrorRowsUnchecked(a) ==
    LET num_species == Len(a.species_names)
    IN  IF Len(a.growth_rates) # num_species
        THEN "Growth rates list must match number of species"
        ELSE IF Len(a.interaction_matrix) # num_species
        THEN "Interaction matrix must be square with dimensions matching number of species"
        ELSE IF Len(a.initial_populations) # num_species
        THEN "Initial populations list must match number of species"
        ELSE IF /\ a.carrying_capacities.given
                /\ Len(a.carrying_capacities.list) # num_species
        THEN "Carrying capacities list must match number of species"
        ELSE ""

\* the message of the ValueError the validation raises, "" when it passes
ValidationError(a) ==
    LET num_species == Len(a.species_names)
    IN  IF Len(a.growth_rates) # num_species
        THEN "Growth rates list must match number of species"
        ELSE IF \/ Len(a.interaction_matrix) # num_species
                \/ \E r \in 1..Len(a.interaction_matrix) :
                       Len(a.interaction_matrix[r]) # num_species
        THEN "Interaction matrix must be square with dimensions matching number of species"
        ELSE IF Len(a.initial_populations) # num_species
        THEN "Initial populations list must match number of species"
        ELSE IF /\ a.carrying_capacities.given
                /\ Len(a.carrying_capacities.list) # num_species
        THEN "Carrying capacities list must match number of species"
        ELSE ""

\* carrying_capacities = [1000] * num_species when None
DefaultedCapacities(a) ==
    IF a.carrying_capacities.given
    THEN a.carrying_capacities.list
    ELSE Filled(Len(a.species_names), R(1000))

CallMulti ==
    /\ pc = "call"
    /\ fn = "run_multi_species_simulation"
    /\ IF ValidationError(args) # ""
       THEN /\ outcome' = [kind |-> "raised", error |-> "ValueError",
                           message |-> ValidationError(args)]
            /\ pc' = "raised"
            /\ UNCHANGED <<locals, sol>>
       ELSE /\ locals' =
                   [params |->
                        [k \in {"growth_rates", "interaction_matrix",
                                "carrying_capacities"} |->
                            CASE k = "growth_rates" -> args.growth_rates
                              [] k = "interaction_matrix" -> args.interaction_matrix
                              [] k = "carrying_capacities" -> DefaultedCapacities(args)],
                    y0 |-> args.initial_populations]
            /\ sol' = NewSol(args.initial_populations)
            /\ pc' = "solve"
            /\ UNCHANGED outcome
    /\ UNCHANGED <<fn, args, first, evalVars, prev>>

(***************************************************************************)
(* The caller of a driver calls it once more with the same arguments.      *)
(***************************************************************************)
CallAgain ==
    /\ pc = "returned"
    /\ first = Nothing
    /\ first' = outcome
    /\ outcome' = Nothing
    /\ locals' = Nothing
    /\ sol' = NoSol
    /\ pc' = "call"
    /\ UNCHANGED <<fn, args, evalVars, prev>>

(***************************************************************************)
(* calculate_ecosystem_metrics (utils.py).  `results` is the sequence of   *)
(* rows <<prey, predator>> of a trajectory.  Python indices count from 0,  *)
(* sequences here from 1: At(s, i) is s[i].  A standard deviation is the   *)
(* square root of a rational and is kept as that: [sqrt |-> q] is the      *)
(* non-negative real whose square is q.                                     *)
(***************************************************************************)
MaxRows == 8

At(s, i) == s[i + 1]
Column(results, c) == [k \in 1..Len(results) |-> results[k][c]]

\* x.mean(), x.min(), x.max() of a non-empty array
Mean(x) == RDiv(Sum(x), R(Len(x)))
Min(x) == CHOOSE m \in {x[k] : k \in 1..Len(x)} : \A k \in 1..Len(x) : RLe(m, x[k])
Max(x) == CHOOSE m \in {x[k] : k \in 1..Len(x)} : \A k \in 1..Len(x) : RLe(x[k], m)

Sqrt(q) == [sqrt |-> q]
\* x.std(): the square root of the mean squared deviation
Std(x) ==
    LET m == Mean(x)
    IN  Sqrt(Mean([k \in 1..Len(x) |-> RMul(RSub(x[k], m), RSub(x[k], m))]))

\* the deviation relative to the size of the mean, whatever its sign
CVAbsMean(std, mean) ==
    IF mean # Zero THEN Sqrt(RDiv(std.sqrt, RMul(mean, mean))) ELSE Sqrt(Zero)

\* std / mean if mean > 0 else 0
CV(std, mean) ==
    IF RLt(Zero, mean) THEN Sqrt(RDiv(std.sqrt, RMul(mean, mean))) ELSE Sqrt(Zero)

\* both square roots positive
BothPositive(a, b) == RLt(Zero, a.sqrt) /\ RLt(Zero, b.sqrt)

\* a + b > 0 for two square roots
SumPositive(a, b) == RLt(Zero, a.sqrt) \/ RLt(Zero, b.sqrt)

\* the quotient 1 / (a + b), kept as its two summands
OneOver(a, b) == [inf |-> FALSE, one_over_sum_of |-> <<a, b>>]
Infinite == [inf |-> TRUE]

\* the stability score computed whatever the sum is
EcosystemStabilityUnguarded(prey_cv, predator_cv) == OneOver(prey_cv, predator_cv)

\* 1 / (prey_cv + predator_cv) if (prey_cv + predator_cv) > 0 else float('inf')
EcosystemStability(prey_cv, predator_cv) ==
    IF SumPositive(prey_cv, predator_cv)
    THEN OneOver(prey_cv, predator_cv)
    ELSE Infinite

\* a sample that is not below its left neighbour counts as a peak
IsPeakLeftWeak(x, i) == RLe(At(x, i - 1), At(x, i)) /\ RLt(At(x, i + 1), At(x, i))

\* a sample that is not below either neighbour counts as a peak
IsPeakWeak(x, i) == RLe(At(x, i - 1), At(x, i)) /\ RLe(At(x, i + 1), At(x, i))

\* x[i] > x[i-1] and x[i] > x[i+1]
IsPeak(x, i) == RLt(At(x, i - 1), At(x, i)) /\ RLt(At(x, i + 1), At(x, i))

RECURSIVE Gaps(_)
\* sum(peak_indices[i+1] - peak_indices[i] for i in range(len(peak_indices)-1))
Gaps(peak_indices) ==
    IF Len(peak_indices) < 2 THEN 0
    ELSE (peak_indices[2] - peak_indices[1]) + Gaps(Tail(peak_indices))

\* the sum of the gaps divided by the number of peaks
PeriodPerPeak(peaks) ==
    IF Len(peaks) >= 2
    THEN LET peak_indices == [k \in 1..Len(peaks) |-> peaks[k][1]]
         IN  Rat(Gaps(peak_indices), Len(peak_indices))
    ELSE Zero

\* the period estimate of one species
Period(peaks) ==
    IF Len(peaks) >= 2
    THEN LET peak_indices == [k \in 1..Len(peaks) |-> peaks[k][1]]
         IN  Rat(Gaps(peak_indices), Len(peak_indices) - 1)
    ELSE Zero

\* the predator peaks at or after the first prey peak
NextPeaksFromIndex(predator_peaks, prey_peak_idx) ==
    SelectSeq(predator_peaks, LAMBDA p : p[1] >= prey_peak_idx)

\* [(i, p) for i, p in enumerate(predator_peaks) if p[0] > prey_peak_idx],
\* without the enumeration index
NextPeaks(predator_peaks, prey_peak_idx) ==
    SelectSeq(predator_peaks, LAMBDA p : p[1] > prey_peak_idx)

PhaseDiff(prey_peaks, predator_peaks) ==
    IF Len(prey_peaks) >= 1 /\ Len(predator_peaks) >= 1
    THEN LET prey_peak_idx == prey_peaks[1][1]
             next_predator_peaks == NextPeaks(predator_peaks, prey_peak_idx)
         IN  IF next_predator_peaks # <<>>
             THEN next_predator_peaks[1][1] - prey_peak_idx
             ELSE 0
    ELSE 0

\* lines 87-110: the columns and the statistics; min() of an empty array
\* raises ValueError
Statistics ==
    /\ pc = "call"
    /\ fn = "calculate_ecosystem_metrics"
    /\ IF Len(args.results) = 0
       THEN /\ outcome' = [kind |-> "raised", error |-> "ValueError",
                           message |-> "zero-size array to reduction operation minimum which has no identity"]
            /\ pc' = "raised"
            /\ UNCHANGED locals
       ELSE /\ LET prey_pop == Column(args.results, 1)
                   predator_pop == Column(args.results, 2)
                   prey_cv == CV(Std(prey_pop), Mean(prey_pop))
                   predator_cv == CV(Std(predator_pop), Mean(predator_pop))
               IN  locals' =
                       [prey_pop |-> prey_pop,
                        predator_pop |-> predator_pop,
                        prey_mean |-> Mean(prey_pop),
                        prey_std |-> Std(prey_pop),
                        prey_min |-> Min(prey_pop),
                        prey_max |-> Max(prey_pop),
                        predator_mean |-> Mean(predator_pop),
                        predator_std |-> Std(predator_pop),
                        predator_min |-> Min(predator_pop),
                        predator_max |-> Max(predator_pop),
                        prey_cv |-> prey_cv,
                        predator_cv |-> predator_cv,
                        ecosystem_stability |-> EcosystemStability(prey_cv, predator_cv),
                        final_prey |-> prey_pop[Len(prey_pop)],
                        final_predator |-> predator_pop[Len(predator_pop)],
                        prey_peaks |-> <<>>,
                        predator_peaks |-> <<>>,
                        i |-> 1,
                        prey_period |-> Zero,
                        predator_period |-> Zero,
                        phase_diff |-> 0]
            /\ pc' = "peaks"
            /\ UNCHANGED outcome
    /\ UNCHANGED <<fn, args, sol, first, evalVars, prev>>

\* lines 116-120: one iteration of for i in range(1, len(prey_pop)-1)
FindPeaks ==
    /\ pc = "peaks"
    /\ locals.i < Len(locals.prey_pop) - 1
    /\ LET i == locals.i
           prey_pop == locals.prey_pop
           predator_pop == locals.predator_pop
       IN  locals' =
               [locals EXCEPT
                   !.prey_peaks =
                       IF IsPeak(prey_pop, i)
                       THEN Append(@, <<i, At(prey_pop, i)>>) ELSE @,
                   !.predator_peaks =
                       IF IsPeak(predator_pop, i)
                       THEN Append(@, <<i, At(predator_pop, i)>>) ELSE @,
                   !.i = i + 1]
    /\ UNCHANGED <<pc, fn, args, sol, outcome, first, evalVars, prev>>

\* lines 122-134, after the loop
EstimatePeriods ==
    /\ pc = "peaks"
    /\ locals.i >= Len(locals.prey_pop) - 1
    /\ locals' = [locals EXCEPT !.prey_period = Period(locals.prey_peaks),
                                !.predator_period = Period(locals.predator_peaks)]
    /\ pc' = "phase"
    /\ UNCHANGED <<fn, args, sol, outcome, first, evalVars, prev>>

\* lines 136-144
PhaseDifference ==
    /\ pc = "phase"
    /\ locals' = [locals EXCEPT
                     !.phase_diff = PhaseDiff(locals.prey_peaks, locals.predator_peaks)]
    /\ pc' = "return"
    /\ UNCHANGED <<fn, args, sol, outcome, first, evalVars, prev>>

\* lines 146-165: the record that is returned
ReturnMetrics ==
    /\ pc = "return"
    /\ outcome' =
           [kind |-> "returned",
            prey_mean |-> locals.prey_mean,
            prey_std |-> locals.prey_std,
            prey_min |-> locals.prey_min,
            prey_max |-> locals.prey_max,
            prey_cv |-> locals.prey_cv,
            predator_mean |-> locals.predator_mean,
            predator_std |-> locals.predator_std,
            predator_min |-> locals.predator_min,
            predator_max |-> locals.predator_max,
            predator_cv |-> locals.predator_cv,
            ecosystem_stability |-> locals.ecosystem_stability,
            final_prey |-> locals.final_prey,
            final_predator |-> locals.final_predator,
            prey_period |-> locals.prey_period,
            predator_period |-> locals.predator_period,
            phase_difference |-> locals.phase_diff,
            prey_peaks_count |-> Len(locals.prey_peaks),
            predator_peaks_count |-> Len(locals.predator_peaks)]
    /\ pc' = "returned"
    /\ UNCHANGED <<fn, args, locals, sol, first, evalVars, prev>>

(***************************************************************************)
(* Inputs of calculate_ecosystem_metrics: every trajectory of up to 3 rows *)
(* over the values -1, 0, 1, 2; every trajectory of 4 or 5 rows over the   *)
(* values 0, 1; and for the longer ones up to MaxRows rows every prey      *)
(* series over 0, 1 with a predator that is constant or follows the prey   *)
(* one sample later.                                                       *)
(***************************************************************************)
Trajectory(prey, predator) == [k \in 1..Len(prey) |-> <<R(prey[k]), R(predator[k])>>]
Delayed(x) == [k \in 1..Len(x) |-> IF k = 1 THEN 0 ELSE x[k - 1]]

MetricsInputs ==
    UNION {{Trajectory(a, b) : a \in [1..n -> {-1, 0, 1, 2}], b \in [1..n -> {-1, 0, 1, 2}]} :
              n \in 0..3}
    \cup
    UNION {{Trajectory(a, b) : a \in [1..n -> {0, 1}], b \in [1..n -> {0, 1}]} :
              n \in 4..5}
    \cup
    UNION {{Trajectory(a, Delayed(a)) : a \in [1..n -> {0, 1}]} \cup
           {Trajectory(a, Filled(n, 1)) : a \in [1..n -> {0, 1}]} \cup
           {Trajectory(Filled(n, 1), a) : a \in [1..n -> {0, 1}]} :
              n \in 6..MaxRows}

(***************************************************************************)
(* Specification.                                                          *)
(***************************************************************************)
IdleEvaluator ==
    /\ t = None
    /\ y = None
    /\ base_params = None
    /\ env_changes = <<>>
    /\ current_params = None
    /\ idx = 1
    /\ effective_intensity = None
    /\ handed = <<>>
    /\ dydt = None
    /\ objects = NoObjects
    /\ prev = NoPrev

\* a direct call of lotka_volterra_with_env_change
InitEvaluator ==
    /\ fn = "lotka_volterra_with_env_change"
    /\ args = Nothing
    /\ locals = Nothing
    /\ sol = NoSol
    /\ outcome = Nothing
    /\ first = Nothing
    /\ t \in {R(x) : x \in Times}
    /\ y \in Populations
    /\ base_params \in BaseParams
    /\ env_changes \in EventLists
    /\ current_params = base_params
    /\ objects = Entered(base_params)
    /\ idx = 1
    /\ effective_intensity = None
    /\ handed = <<>>
    /\ dydt = None
    /\ pc = "loop"
    /\ prev = NoPrev

\* a call of one of the three integration drivers
InitDriver ==
    /\ \/ fn = "run_lotka_volterra" /\ args \in LotkaArgs
       \/ fn = "run_habitat_change_simulation" /\ args \in HabitatArgs
       \/ fn = "run_multi_species_simulation" /\ args \in MultiArgs
    /\ locals = Nothing
    /\ sol = NoSol
    /\ outcome = Nothing
    /\ first = Nothing
    /\ IdleEvaluator
    /\ pc = "call"

Init == InitEvaluator \/ InitDriver

Next ==
    \/ LoopApply \/ LoopSkip \/ Return \/ Reorder \/ Advance
    \/ CallLotka \/ CallHabitat \/ CallMulti
    \/ Evaluate \/ EvaluateWithChanges \/ SolverStep \/ SolverFail
    \/ ReturnSolution \/ ReturnHabitat \/ CallAgain

Spec == Init /\ [][Next]_vars

\* a call of calculate_ecosystem_metrics on a finished trajectory
InitMetrics ==
    /\ fn = "calculate_ecosystem_metrics"
    /\ args \in {[results |-> r] : r \in MetricsInputs}
    /\ locals = Nothing
    /\ sol = NoSol
    /\ outcome = Nothing
    /\ first = Nothing
    /\ IdleEvaluator
    /\ pc = "call"

NextMetrics ==
    \/ Statistics \/ FindPeaks \/ EstimatePeriods \/ PhaseDifference \/ ReturnMetrics

SpecMetrics == InitMetrics /\ [][NextMetrics]_vars

\* a direct call of multi_species_system
InitSystem ==
    /\ fn = "multi_species_system"
    /\ args \in SystemArgs
    /\ locals = Nothing
    /\ sol = NoSol
    /\ outcome = Nothing
    /\ first = Nothing
    /\ IdleEvaluator
    /\ pc = "call"

NextSystem == CallSystem

SpecSystem == InitSystem /\ [][NextSystem]_vars

\* the two entry points of multispecies.py, zero capacities included
InitMulti ==
    /\ \/ fn = "multi_species_system"
          /\ args \in SystemArgs \cup SystemArgsZeroCapacity
       \/ fn = "run_multi_species_simulation"
          /\ args \in MultiArgs \cup MultiArgsZeroCapacity
    /\ locals = Nothing
    /\ sol = NoSol
    /\ outcome = Nothing
    /\ first = Nothing
    /\ IdleEvaluator
    /\ pc = "call"

NextMulti ==
    \/ CallSystem \/ CallMulti
    \/ Evaluate \/ SolverStep \/ SolverFail \/ ReturnSolution

SpecMulti == InitMulti /\ [][NextMulti]_vars

(***************************************************************************)
(* Properties.                                                             *)
(***************************************************************************)
Evaluator == "lotka_volterra_with_env_change"
Drivers ==
    {"run_lotka_volterra", "run_habitat_change_simulation",
     "run_multi_species_simulation"}

\* the five values of a parameter set; an absent direct_mortality counts as 0
Mortality(p) == Get(p, "direct_mortality", Zero)
SameValues(p, q) ==
    /\ \A k \in RateKeys : p[k] = q[k]
    /\ Mortality(p) = Mortality(q)

\* the transform of one event at a time, as section 4.2 of the spec states it
ClaimProgress(time, change) ==
    IF "duration" \notin DOMAIN change \/ change.duration = 0
    THEN One
    ELSE RMax(Zero, RMin(One,
             RDiv(RSub(time, R(change.start_time)), R(change.duration))))

ClaimTransform(p, time, change) ==
    apply_environmental_change(
        p, change.type,
        RMul(R(change.intensity), ClaimProgress(time, change)),
        change.affected_species)

RECURSIVE FoldLeft(_, _, _)
FoldLeft(p, time, changes) ==
    IF changes = <<>> THEN p
    ELSE FoldLeft(IF RLe(R(Head(changes).start_time), time)
                  THEN ClaimTransform(p, time, Head(changes))
                  ELSE p,
                  time, Tail(changes))

\* C1: when the solver fails, the driver raises an integration error and
\* returns no partial trajectory: a returned result is the full trajectory
\* of NumPoints rows of a successful integration.
C1_AllOrNothing ==
    pc = "returned" =>
        /\ sol.status = "finished"
        /\ outcome.length = NumPoints

\* C2: at every position of the loop the running parameter set is the left
\* fold of the per-event transform over the events passed so far, in list
\* order, each transform applied to the result of the previous ones.
C2_LeftFold ==
    (fn \in {Evaluator, "run_habitat_change_simulation"}
        /\ pc \in {"loop", "done", "step"}) =>
        current_params = FoldLeft(base_params, t, SubSeq(env_changes, 1, idx - 1))

\* two active events were folded, and the result is neither event's
\* transform of the base
C2_Compounded ==
    /\ fn = Evaluator
    /\ pc = "done"
    /\ Len(env_changes) = 2
    /\ handed[1] # None
    /\ handed[2] # None
    /\ current_params # ClaimTransform(base_params, t, env_changes[1])
    /\ current_params # ClaimTransform(base_params, t, env_changes[2])

C4_RampProgress ==
    fn \in {Evaluator, "run_habitat_change_simulation"} =>
        \A i \in 1..Len(handed) :
            RLe(R(env_changes[i].start_time), t) =>
                handed[i] = RMul(R(env_changes[i].intensity),
                                 ClaimProgress(t, env_changes[i]))

\* an event was applied in the middle of its ramp
C4_MidRamp ==
    /\ fn = Evaluator
    /\ pc = "done"
    /\ \E i \in 1..Len(handed) :
           /\ handed[i] # None
           /\ handed[i] # Zero
           /\ handed[i] # R(env_changes[i].intensity)

\* C5: an event is applied only if start_time <= t, at any position of the
\* list; an event with start_time > t leaves the running parameter set as it
\* is, and when every event starts after t the effective parameters are the
\* base parameters.
C5_OnlyStarted ==
    [][ /\ (/\ pc = "loop"
            /\ idx <= Len(env_changes)
            /\ RLt(t, R(env_changes[idx].start_time)))
           => (current_params' = current_params /\ idx' = idx + 1)
        /\ \A i \in 1..Len(handed') :
               handed'[i] # None => RLe(R(env_changes'[i].start_time), t')
        /\ (/\ pc' \in {"loop", "done", "step"}
            /\ \A i \in 1..Len(env_changes') :
                   RLt(t', R(env_changes'[i].start_time)))
           => current_params' = base_params'
      ]_vars

\* an event that has not started was passed over at the head of the list and
\* the event after it was applied
C5_SkippedFirst ==
    /\ fn = Evaluator
    /\ pc = "done"
    /\ Len(env_changes) = 2
    /\ handed[1] = None
    /\ handed[2] # None
    /\ current_params # base_params

\* the parts of C6 that hold as stated, for an event with a duration > 0:
\* the effective intensity is 0 at t = start_time and the full intensity
\* from start_time + duration on
RampEnds ==
    \A i \in 1..Len(handed) :
        (HasRamp(env_changes[i]) /\ handed[i] # None) =>
            /\ t = R(env_changes[i].start_time) => handed[i] = Zero
            /\ RLe(R(env_changes[i].start_time + env_changes[i].duration), t)
                   => handed[i] = R(env_changes[i].intensity)

\* the same list was evaluated at an earlier time
Advanced == fn = Evaluator /\ pc = "done" /\ prev.how = "advanced"

\* C6 as stated: for an event with a duration > 0 the effective intensity
\* is 0 at t = start_time, increases monotonically in t and is the full
\* intensity for t >= start_time + duration.
C6_Increasing ==
    fn = Evaluator =>
        /\ RampEnds
        /\ Advanced =>
               \A i \in 1..Len(handed) :
                   (HasRamp(env_changes[i]) /\ prev.handed[i] # None) =>
                       RLe(prev.handed[i], handed[i])

\* C6 amended: ... moves monotonically from 0 to the intensity, increasing
\* for an intensity >= 0 and decreasing for an intensity < 0 ...
C6_Monotone ==
    fn = Evaluator =>
        /\ RampEnds
        /\ Advanced =>
               \A i \in 1..Len(handed) :
                   (HasRamp(env_changes[i]) /\ prev.handed[i] # None) =>
                       IF env_changes[i].intensity >= 0
                       THEN RLe(prev.handed[i], handed[i])
                       ELSE RLe(handed[i], prev.handed[i])

\* an event was evaluated twice on its ramp, with different intensities
C6_Ramping ==
    /\ Advanced
    /\ \E i \in 1..Len(handed) :
           /\ HasRamp(env_changes[i])
           /\ prev.handed[i] # None
           /\ prev.handed[i] # handed[i]
           /\ handed[i] # R(env_changes[i].intensity)

\* C7: events of intensity 0 leave the composed parameter set equal to the
\* base, whatever their type, affected species, duration and the time.
C7_ZeroIntensity ==
    (/\ fn = Evaluator
     /\ \A i \in 1..Len(env_changes) : env_changes[i].intensity = 0)
        => SameValues(current_params, base_params)

\* a Disease event of intensity 0 on the prey was applied on its ramp
C7_ZeroDisease ==
    /\ fn = Evaluator
    /\ pc = "done"
    /\ Len(env_changes) = 1
    /\ env_changes[1].intensity = 0
    /\ env_changes[1].type = "Disease"
    /\ env_changes[1].affected_species = "prey"
    /\ HasRamp(env_changes[1])
    /\ handed = <<Zero>>
    /\ "direct_mortality" \in DOMAIN current_params

ZeroRates(p) == \A k \in RateKeys : p[k] = Zero
ZeroVector == <<Zero, Zero>>

\* the event adds direct mortality at time `time`
AddsMortality(time, change) ==
    /\ IsActive(time, change)
    /\ change.type = "Disease"
    /\ change.affected_species \in {"prey", "both"}
    /\ EffectiveIntensity(time, change) # Zero

\* every row of the returned trajectory is the initial state
Constant(res, y0) ==
    /\ res.length = NumPoints
    /\ \A i \in 0..(res.length - 1) : RowAt(res, i) = y0

\* C8 as stated: all-zero rates make the derivative the zero vector at every
\* time and state for every event list, and the populations stay at their
\* initial values for the whole trajectory.
C8_ZeroRatesFrozen ==
    /\ (/\ fn \in {Evaluator, "run_habitat_change_simulation"}
        /\ pc \in {"done", "step"}
        /\ ZeroRates(base_params))
       => dydt = ZeroVector
    /\ (/\ fn \in {"run_lotka_volterra", "run_habitat_change_simulation"}
        /\ pc = "returned"
        /\ args.rates = <<0, 0, 0, 0>>)
       => Constant(outcome, StateOf(args))

\* C8 amended: ... for every event list in which no active Disease event
\* affecting prey or both has a non-zero effective intensity ...
C8_ZeroRatesNoMortality ==
    /\ (/\ fn \in {Evaluator, "run_habitat_change_simulation"}
        /\ pc \in {"done", "step"}
        /\ ZeroRates(base_params)
        /\ \A i \in 1..Len(env_changes) : ~AddsMortality(t, env_changes[i]))
       => dydt = ZeroVector
    /\ (/\ fn \in {"run_lotka_volterra", "run_habitat_change_simulation"}
        /\ pc = "returned"
        /\ args.rates = <<0, 0, 0, 0>>
        /\ fn = "run_habitat_change_simulation" =>
               ~(/\ args.env_change_type = "Disease"
                 /\ outcome.events[1].affected \in {"prey", "both"}
                 /\ args.env_change_intensity # 0))
       => Constant(outcome, StateOf(args))

\* a run with all-zero rates and an active event returned
C8_FrozenRun ==
    /\ fn = "run_habitat_change_simulation"
    /\ pc = "returned"
    /\ args.rates = <<0, 0, 0, 0>>
    /\ args.env_change_type = "Resource Depletion"
    /\ args.env_change_intensity = 100
    /\ args.env_change_start = 0
    /\ args.time_span = 20

\* C9: two calls of a driver with the same arguments return the same times,
\* populations and echoed events.
C9_Deterministic ==
    (pc = "returned" /\ first # Nothing) => outcome = first

\* what C10 calls agreeing dimensions
DimensionsAgree(a) ==
    LET n == Len(a.species_names)
    IN  /\ Len(a.growth_rates) = n
        /\ Len(a.initial_populations) = n
        /\ a.carrying_capacities.given => Len(a.carrying_capacities.list) = n
        /\ Len(a.interaction_matrix) = n
        /\ \A r \in 1..Len(a.interaction_matrix) : Len(a.interaction_matrix[r]) = n

\* C10: run_multi_species_simulation raises, before the solver is called,
\* exactly when the dimensions do not all agree.
C10_Validation ==
    (fn = "run_multi_species_simulation" /\ pc # "call") =>
        IF DimensionsAgree(args)
        THEN pc # "raised" /\ outcome.kind # "raised"
        ELSE pc = "raised" /\ outcome.kind = "raised" /\ sol = NoSol

\* a matrix with the right number of rows, one of them of the wrong length,
\* was rejected
C10_RaggedRejected ==
    /\ fn = "run_multi_species_simulation"
    /\ pc = "raised"
    /\ Len(args.growth_rates) = Len(args.species_names)
    /\ Len(args.interaction_matrix) = Len(args.species_names)
    /\ \E r \in 1..Len(args.interaction_matrix) :
           Len(args.interaction_matrix[r]) # Len(args.species_names)

\* C12: the two-species evaluator with events returns
\* dPrey/dt = alpha*prey - beta*prey*predator - direct_mortality*prey and
\* dPredator/dt = delta*prey*predator - gamma*predator
\* - direct_mortality*predator, with the effective values at t, an absent
\* direct_mortality counting as 0.
C12_Equations ==
    (fn \in {Evaluator, "run_habitat_change_simulation"} /\ pc \in {"done", "step"}) =>
        LET p == FoldLeft(base_params, t, env_changes)
            m == Mortality(p)
            prey == y[1]
            predator == y[2]
        IN  dydt =
                <<RSub(RSub(RMul(p["alpha"], prey),
                            RMul(p["beta"], RMul(prey, predator))),
                       RMul(m, prey)),
                  RSub(RSub(RMul(p["delta"], RMul(prey, predator)),
                            RMul(p["gamma"], predator)),
                       RMul(m, predator))>>

\* a Disease event has contributed mortality and both derivatives are lower
\* than the rates alone give
C12_WithMortality ==
    /\ fn = Evaluator
    /\ pc = "done"
    /\ ~ZeroRates(base_params)
    /\ RLt(Zero, Mortality(current_params))
    /\ RLt(dydt[1], lotka_volterra_system(t, y, current_params)[1])
    /\ RLt(dydt[2], lotka_volterra_system(t, y, current_params)[2])

\* C15: every returned simulation result has times strictly increasing, as
\* many population rows as time points, and exactly NumPoints evenly spaced
\* report points from 0 to time_span, whatever the number of solver steps.
C15_FullGrid ==
    (fn \in Drivers /\ pc = "returned") =>
        /\ outcome.length = NumPoints
        /\ TimeAt(outcome, 0) = Zero
        /\ TimeAt(outcome, outcome.length - 1) = R(args.time_span)
        /\ \A i \in 0..(outcome.length - 2) :
               /\ RLt(TimeAt(outcome, i), TimeAt(outcome, i + 1))
               /\ RSub(TimeAt(outcome, i + 1), TimeAt(outcome, i)) =
                      Rat(args.time_span, NumPoints - 1)

\* the running call of the evaluator, from its entry to its return
InEvaluator ==
    /\ fn \in {Evaluator, "run_habitat_change_simulation"}
    /\ pc \in {"loop", "done"} \/ (pc = "step" /\ objects # NoObjects)

\* C16: composition does not mutate its inputs: during and after a call the
\* base parameter set and every event hold the keys and values they had
\* before it, in apply_environmental_change as in
\* lotka_volterra_with_env_change, and the returned parameter set is a
\* distinct object.
C16_InputsIntact ==
    [][ /\ InEvaluator' =>
               /\ objects'.store[objects'.base_params] = base_params'
               /\ objects'.current_params # objects'.base_params
               /\ objects'.store[objects'.current_params] = current_params'
        /\ pc = "loop" =>
               /\ base_params' = base_params
               /\ env_changes' = env_changes
               /\ \A id \in 1..Len(objects.store) :
                      objects'.store[id] = objects.store[id]
        /\ (pc = "loop" /\ Len(handed') > Len(handed) /\ handed'[Len(handed')] # None) =>
               /\ objects'.current_params # objects.current_params
               /\ objects'.current_params > Len(objects.store)
      ]_vars

\* two transforms ran: four dict objects, the caller's one as it was passed
\* and different from the returned one
C16_TwoCopies ==
    /\ fn = Evaluator
    /\ pc = "done"
    /\ Len(objects.store) = 4
    /\ objects.store[1] = base_params
    /\ objects.store[2] = base_params
    /\ objects.store[3] # objects.store[2]
    /\ objects.store[4] # objects.store[3]
    /\ objects.current_params = 4

\* the events of the running call that have been applied so far
Composing ==
    /\ fn \in {Evaluator, "run_habitat_change_simulation"}
    /\ pc \in {"loop", "done", "step"}

\* what one event adds to direct_mortality at time `time`
Contribution(time, change) ==
    IF change.type = "Disease" /\ RLe(R(change.start_time), time)
    THEN LET eff == RMul(R(change.intensity), ClaimProgress(time, change))
         IN  CASE change.affected_species = "prey" ->
                      RDiv(RMul(Rat(5, 100), eff), R(100))
               [] change.affected_species = "both" ->
                      RDiv(RMul(Rat(3, 100), eff), R(100))
               [] OTHER -> Zero
    ELSE Zero

\* C23: direct_mortality accumulates additively: after folding it is the
\* sum over the active Disease events of 0.05*effective_intensity/100 for
\* those affecting prey and 0.03*effective_intensity/100 for those affecting
\* both; predator-only Disease events and other events add nothing.
C23_MortalitySum ==
    Composing =>
        Mortality(current_params) =
            Sum([i \in 1..(idx - 1) |-> Contribution(t, env_changes[i])])

\* a Disease event on the prey and one on both have both contributed
C23_TwoDiseases ==
    /\ fn = Evaluator
    /\ pc = "done"
    /\ Len(env_changes) = 2
    /\ env_changes[1].type = "Disease"
    /\ env_changes[2].type = "Disease"
    /\ env_changes[1].affected_species = "prey"
    /\ env_changes[2].affected_species = "both"
    /\ RLt(Zero, Contribution(t, env_changes[1]))
    /\ RLt(Zero, Contribution(t, env_changes[2]))
    /\ RLt(Contribution(t, env_changes[1]), Mortality(current_params))

KnownTypes == {"Temperature Increase", "Habitat Loss", "Resource Depletion", "Disease"}

\* C24: the transform is species-selective: a prey-only event leaves gamma
\* and delta unchanged, a predator-only event leaves alpha, beta and
\* direct_mortality unchanged, Resource Depletion never changes beta or
\* gamma, and an event of an unknown type changes nothing.
C24_Selective ==
    [][ (pc = "loop" /\ idx <= Len(env_changes)) =>
            LET change == env_changes[idx]
            IN  /\ change.affected_species = "prey" =>
                       /\ current_params'["gamma"] = current_params["gamma"]
                       /\ current_params'["delta"] = current_params["delta"]
                /\ change.affected_species = "predator" =>
                       /\ current_params'["alpha"] = current_params["alpha"]
                       /\ current_params'["beta"] = current_params["beta"]
                       /\ Mortality(current_params') = Mortality(current_params)
                /\ change.type = "Resource Depletion" =>
                       /\ current_params'["beta"] = current_params["beta"]
                       /\ current_params'["gamma"] = current_params["gamma"]
                /\ change.type \notin KnownTypes =>
                       SameValues(current_params', current_params)
      ]_vars

\* a predator-only Temperature Increase was applied: gamma and delta moved,
\* alpha and beta did not
C24_PredatorOnly ==
    /\ fn = Evaluator
    /\ pc = "done"
    /\ Len(env_changes) = 1
    /\ env_changes[1].type = "Temperature Increase"
    /\ env_changes[1].affected_species = "predator"
    /\ handed[1] = R(100)
    /\ current_params["gamma"] # base_params["gamma"]
    /\ current_params["delta"] # base_params["delta"]
    /\ current_params["alpha"] = base_params["alpha"]
    /\ current_params["beta"] = base_params["beta"]

\* C25: with an empty event list, or at a time before every event's
\* start_time, lotka_volterra_with_env_change returns exactly what
\* lotka_volterra_system returns for the same base parameters and state.
C25_PlainWithoutEvents ==
    (/\ fn \in {Evaluator, "run_habitat_change_simulation"}
     /\ pc \in {"done", "step"}
     /\ \A i \in 1..Len(env_changes) : RLt(t, R(env_changes[i].start_time)))
        => dydt = lotka_volterra_system(t, y, base_params)

\* two events of full effect later on, evaluated before either has started
C25_BeforeAll ==
    /\ fn = Evaluator
    /\ pc = "done"
    /\ Len(env_changes) = 2
    /\ \A i \in 1..2 :
           /\ RLt(t, R(env_changes[i].start_time))
           /\ env_changes[i].intensity # 0
    /\ ~ZeroRates(base_params)
    /\ dydt = lotka_volterra_system(t, y, base_params)
    /\ dydt # ZeroVector

\* every event of the list is a Disease event on the prey only
PreyDiseaseOnly ==
    /\ env_changes # <<>>
    /\ \A i \in 1..Len(env_changes) :
           /\ env_changes[i].type = "Disease"
           /\ env_changes[i].affected_species = "prey"

ClaimDeltaMultiplier(s) ==
    IF RLt(s, Rat(1, 2))
    THEN RAdd(One, RMul(Rat(2, 10), s))
    ELSE RSub(One, RMul(Rat(4, 10), RSub(s, Rat(1, 2))))

\* the call evaluated one Habitat Loss event that affects the predator
HabitatLossOnPredator ==
    /\ fn = Evaluator
    /\ pc = "done"
    /\ Len(env_changes) = 1
    /\ env_changes[1].type = "Habitat Loss"
    /\ env_changes[1].affected_species \in {"predator", "both"}
    /\ handed[1] # None

\* C27: under Habitat Loss affecting the predator the multiplier of delta is
\* 1 + 0.2*s for s < 0.5 and 1 - 0.4*(s - 0.5) for s >= 0.5: above 1 and
\* below 1.1 for 0 < s < 0.5, exactly 1 at s = 0.5, so delta drops when a
\* ramp reaches s = 0.5 and is not monotone in t.
C27_DeltaBreak ==
    HabitatLossOnPredator =>
        LET s == RDiv(handed[1], R(100))
            delta == current_params["delta"]
            base == base_params["delta"]
        IN  /\ delta = RMul(base, ClaimDeltaMultiplier(s))
            /\ s = Rat(1, 2) => delta = base
            /\ (RLt(Zero, s) /\ RLt(s, Rat(1, 2)) /\ RLt(Zero, base)) =>
                   /\ RLt(base, delta)
                   /\ RLt(delta, RMul(Rat(11, 10), base))
            /\ (/\ prev.how = "advanced"
                /\ prev.handed[1] # None
                /\ RLt(Zero, prev.handed[1])
                /\ RLt(prev.handed[1], R(50))
                /\ RLe(R(50), handed[1])
                /\ RLt(Zero, base)) =>
                   RLt(delta, prev.params["delta"])

\* a ramp to the intensity 50: delta was above its base value half-way and
\* is back at the base value at the end
C27_RiseAndDrop ==
    /\ HabitatLossOnPredator
    /\ prev.how = "advanced"
    /\ prev.handed[1] = R(25)
    /\ handed[1] = R(50)
    /\ RLt(base_params["delta"], prev.params["delta"])
    /\ current_params["delta"] = base_params["delta"]

(***************************************************************************)
(* Properties of multi_species_system.                                     *)
(***************************************************************************)
System == "multi_species_system"

\* the capacity of species i: unconstrained when none is given
CapacityOf(params, i) ==
    IF "carrying_capacities" \in DOMAIN params
    THEN params["carrying_capacities"][i]
    ELSE Inf

\* r*x*(1 - x/K), and r*x for an unconstrained capacity
Logistic(r, x, K) ==
    IF K = Inf THEN RMul(r, x)
    ELSE RMul(RMul(r, x), RSub(One, RDiv(x, K)))

RECURSIVE WeightedSum(_, _, _)
\* the sum over j in J of row[j] * state[j]
WeightedSum(row, state, J) ==
    IF J = {} THEN Zero
    ELSE LET j == CHOOSE k \in J : TRUE
         IN  RAdd(RMul(row[j], state[j]), WeightedSum(row, state, J \ {j}))

ClaimRate(params, state, i) ==
    RAdd(Logistic(params["growth_rates"][i], state[i], CapacityOf(params, i)),
         RMul(state[i],
              WeightedSum(params["interaction_matrix"][i], state,
                          (1..Len(state)) \ {i})))

WithDiagonal(params, d) ==
    [params EXCEPT !["interaction_matrix"] =
        [i \in 1..Len(@) |-> [j \in 1..Len(@[i]) |-> IF i = j THEN R(d) ELSE @[i][j]]]]

\* C13: the N-species evaluator returns, for every species i,
\* r_i*x_i*(1 - x_i/K_i) + x_i * sum over j # i of A[i][j]*x_j; the diagonal
\* of A never influences the result, and an unconstrained capacity makes the
\* first term r_i*x_i.
C13_Equations ==
    (fn = System /\ pc = "done") =>
        /\ \A i \in 1..Len(y) : dydt[i] = ClaimRate(args.params, y, i)
        /\ \A d \in {-2, 0, 1, 3} :
               multi_species_system(t, y, WithDiagonal(args.params, d)) = dydt

\* two species, a non-zero diagonal, interactions in both directions, the
\* first species unconstrained and the second not
C13_Coupled ==
    /\ fn = System
    /\ pc = "done"
    /\ Len(y) = 2
    /\ y = <<R(2), R(5)>>
    /\ args.params["interaction_matrix"] = Matrix(2, 3, -1, 2)
    /\ "carrying_capacities" \in DOMAIN args.params
    /\ args.params["carrying_capacities"] = <<Inf, R(5)>>
    /\ dydt[1] = RAdd(RMul(args.params["growth_rates"][1], R(2)), R(-10))
    /\ dydt[2] = R(20)

ZeroMatrix(params) ==
    \A i \in 1..Len(params["interaction_matrix"]) :
        \A j \in 1..Len(params["interaction_matrix"][i]) :
            params["interaction_matrix"][i][j] = Zero

\* C14: with an all-zero interaction matrix the derivative of species i
\* depends only on x_i, r_i and K_i; it is the logistic term, which is zero
\* at x_i = K_i and at x_i = 0.
C14_Decoupled ==
    (fn = System /\ pc = "done" /\ ZeroMatrix(args.params)) =>
        \A i \in 1..Len(y) :
            /\ dydt[i] =
                   Logistic(args.params["growth_rates"][i], y[i],
                            CapacityOf(args.params, i))
            /\ \A other \in SystemStates(Len(y)) :
                   other[i] = y[i] =>
                       multi_species_system(t, other, args.params)[i] = dydt[i]
            /\ y[i] = Zero => dydt[i] = Zero
            /\ y[i] = CapacityOf(args.params, i) => dydt[i] = Zero

\* two species, no interactions: the first is at its capacity and at rest
\* while the second grows
C14_AtCapacity ==
    /\ fn = System
    /\ pc = "done"
    /\ ZeroMatrix(args.params)
    /\ Len(y) = 2
    /\ "carrying_capacities" \in DOMAIN args.params
    /\ y[1] = args.params["carrying_capacities"][1]
    /\ y[2] = R(2)
    /\ dydt[1] = Zero
    /\ dydt[2] # Zero

Multi == "run_multi_species_simulation"

\* the capacities contain a zero
HasZeroCapacity(capacities) == \E i \in 1..Len(capacities) : capacities[i] = Zero

\* C22: a zero carrying capacity is not guarded: with K_i = 0 the logistic
\* term of species i divides by zero, in a direct call of
\* multi_species_system as in a run of run_multi_species_simulation, whose
\* validation neither rejects nor replaces the zero.
C22_ZeroCapacityUnguarded ==
    /\ (/\ fn = System
        /\ pc # "call"
        /\ "carrying_capacities" \in DOMAIN args.params
        /\ HasZeroCapacity(args.params["carrying_capacities"]))
       => /\ pc = "raised"
          /\ outcome.error = "ZeroDivisionError"
    /\ (/\ fn = Multi
        /\ pc # "call"
        /\ DimensionsAgree(args)
        /\ args.carrying_capacities.given
        /\ HasZeroCapacity(args.carrying_capacities.list))
       => /\ locals.params["carrying_capacities"] = args.carrying_capacities.list
          /\ outcome.kind = "none" \/ outcome.error # "ValueError"
          /\ pc # "solve" =>
                 \A i \in 1..Len(y) :
                     args.carrying_capacities.list[i] = Zero => dydt[i] = NonFinite

\* the run passed the validation with a zero capacity and the solver
\* received a derivative that is not finite for that species only
C22_DividedByZero ==
    /\ fn = Multi
    /\ pc = "step"
    /\ Len(y) = 2
    /\ locals.params["carrying_capacities"] = <<Zero, R(5)>>
    /\ y[1] # Zero
    /\ dydt[1] = NonFinite
    /\ dydt[2] # NonFinite

\* C28: run_multi_species_simulation called without carrying_capacities
\* gives every species the capacity 1000, with the logistic term active;
\* multi_species_system called with parameters lacking carrying_capacities
\* treats every species as unconstrained, with the growth term r_i*x_i.
C28_OmittedCapacities ==
    /\ (/\ fn = Multi
        /\ pc \notin {"call", "raised"}
        /\ ~args.carrying_capacities.given)
       => /\ locals.params["carrying_capacities"] =
                 Filled(Len(args.species_names), R(1000))
          /\ pc = "step" =>
                 \A i \in 1..Len(y) :
                     dydt[i] =
                         RAdd(RMul(RMul(locals.params["growth_rates"][i], y[i]),
                                   RSub(One, RDiv(y[i], R(1000)))),
                              RMul(y[i],
                                   WeightedSum(locals.params["interaction_matrix"][i],
                                               y, (1..Len(y)) \ {i})))
    /\ (/\ fn = System
        /\ pc = "done"
        /\ "carrying_capacities" \notin DOMAIN args.params)
       => \A i \in 1..Len(y) :
              dydt[i] =
                  RAdd(RMul(args.params["growth_rates"][i], y[i]),
                       RMul(y[i],
                            WeightedSum(args.params["interaction_matrix"][i],
                                        y, (1..Len(y)) \ {i})))

\* a run without capacities reached the solver: the growth term of the
\* first species is below r*x
C28_DefaultActive ==
    /\ fn = Multi
    /\ pc = "step"
    /\ ~args.carrying_capacities.given
    /\ Len(y) = 2
    /\ ZeroMatrix(locals.params)
    /\ locals.params["growth_rates"][1] = One
    /\ RLt(dydt[1], y[1])
    /\ RLt(Zero, dydt[1])

(***************************************************************************)
(* Properties of calculate_ecosystem_metrics.                              *)
(***************************************************************************)
Metrics == "calculate_ecosystem_metrics"

\* the indices of the recorded peaks, in the order they were recorded
Indices(peaks) == [k \in 1..Len(peaks) |-> peaks[k][1]]

\* C11: for a trajectory of zero rows or of exactly one row the function
\* reports an error and returns no metrics record.
C11_DegenerateRejected ==
    (fn = Metrics /\ pc # "call" /\ Len(args.results) <= 1) =>
        pc = "raised" /\ outcome.kind = "raised"

\* what C17 calls a peak of the series x at index i, indices from 0
ClaimPeak(x, i) ==
    /\ 1 <= i
    /\ i <= Len(x) - 2
    /\ RLt(x[i], x[i + 1])
    /\ RLt(x[i + 2], x[i + 1])

RECURSIVE Ascending(_, _)
\* the members of the set S of integers from lo on, as an increasing sequence
Ascending(S, lo) ==
    IF \A n \in S : n < lo THEN <<>>
    ELSE IF lo \in S THEN <<lo>> \o Ascending(S, lo + 1)
    ELSE Ascending(S, lo + 1)

ClaimPeaks(x) == Ascending({i \in 0..(Len(x) - 1) : ClaimPeak(x, i)}, 0)

AlternatingSeries == [k \in 1..7 |-> IF k % 2 = 0 THEN One ELSE Zero]

\* C17: index i is counted as a peak iff 1 <= i <= len-2 and
\* x[i-1] < x[i] > x[i+1]; the first and the last sample are never peaks;
\* the series [0,1,0,1,0,1,0] has exactly the peaks 1, 3, 5.
C17_Peaks ==
    /\ (fn = Metrics /\ pc \in {"phase", "return", "returned"}) =>
           /\ Indices(locals.prey_peaks) = ClaimPeaks(locals.prey_pop)
           /\ Indices(locals.predator_peaks) = ClaimPeaks(locals.predator_pop)
           /\ \A k \in 1..Len(locals.prey_peaks) :
                  locals.prey_peaks[k][1] \notin {0, Len(locals.prey_pop) - 1}
           /\ \A k \in 1..Len(locals.predator_peaks) :
                  locals.predator_peaks[k][1] \notin {0, Len(locals.predator_pop) - 1}
           /\ locals.prey_pop = AlternatingSeries =>
                  Indices(locals.prey_peaks) = <<1, 3, 5>>
           /\ locals.predator_pop = AlternatingSeries =>
                  Indices(locals.predator_peaks) = <<1, 3, 5>>
    /\ (fn = Metrics /\ pc = "returned") =>
           /\ outcome.prey_peaks_count = Len(ClaimPeaks(locals.prey_pop))
           /\ outcome.predator_peaks_count = Len(ClaimPeaks(locals.predator_pop))

\* the series [0,1,0,1,0,1,0] was analysed: three peaks
C17_Alternating ==
    /\ fn = Metrics
    /\ pc = "returned"
    /\ locals.prey_pop = AlternatingSeries
    /\ outcome.prey_peaks_count = 3

\* the phase difference as C18 states it, from the peak indices of the two
\* series
ClaimPhase(P, Q) ==
    IF P = <<>> \/ Q = <<>> THEN 0
    ELSE LET later == {Q[k] : k \in 1..Len(Q)} \cap {q \in 0..MaxRows : q > P[1]}
         IN  IF later = {} THEN 0
             ELSE (CHOOSE q \in later : \A r \in later : q <= r) - P[1]

\* C18: the phase difference is the index offset from the first prey peak to
\* the earliest predator peak with a strictly greater index; it is 0 when
\* there is none or when either species has no peak.
C18_PhaseDifference ==
    /\ (fn = Metrics /\ pc \in {"return", "returned"}) =>
           locals.phase_diff =
               ClaimPhase(ClaimPeaks(locals.prey_pop), ClaimPeaks(locals.predator_pop))
    /\ (fn = Metrics /\ pc = "returned") =>
           outcome.phase_difference = locals.phase_diff

\* the predator has a peak at the index of the first prey peak and a later
\* one, and the later one was used
C18_SameIndexSkipped ==
    /\ fn = Metrics
    /\ pc = "returned"
    /\ Len(locals.prey_peaks) >= 1
    /\ Len(locals.predator_peaks) >= 2
    /\ locals.predator_peaks[1][1] = locals.prey_peaks[1][1]
    /\ outcome.phase_difference = locals.predator_peaks[2][1] - locals.prey_peaks[1][1]
    /\ outcome.phase_difference > 0

\* the mean of the gaps between consecutive peak indices: they telescope to
\* last - first, over one less than the number of peaks
ClaimPeriod(P) ==
    IF Len(P) >= 2 THEN Rat(P[Len(P)] - P[1], Len(P) - 1) ELSE Zero

\* C19: the period estimate is the mean of the gaps between consecutive peak
\* indices for a species with at least 2 peaks and 0 otherwise; it is a
\* number of samples, computed from the indices alone.
C19_Period ==
    /\ (fn = Metrics /\ pc \in {"phase", "return", "returned"}) =>
           /\ locals.prey_period = ClaimPeriod(ClaimPeaks(locals.prey_pop))
           /\ locals.predator_period = ClaimPeriod(ClaimPeaks(locals.predator_pop))
    /\ (fn = Metrics /\ pc = "returned") =>
           /\ outcome.prey_period = locals.prey_period
           /\ outcome.predator_period = locals.predator_period

\* three peaks with unequal gaps: the estimate is not a whole number
C19_UnequalGaps ==
    /\ fn = Metrics
    /\ pc = "returned"
    /\ Indices(locals.prey_peaks) = <<1, 3, 6>>
    /\ outcome.prey_period = Rat(5, 2)

\* C20: the stability score is 1 / (CV_prey + CV_predator); when both CVs
\* are 0 it is infinite, and the quotient is never formed with a zero sum.
C20_Stability ==
    (fn = Metrics /\ pc = "returned") =>
        IF outcome.prey_cv = Sqrt(Zero) /\ outcome.predator_cv = Sqrt(Zero)
        THEN outcome.ecosystem_stability = Infinite
        ELSE /\ outcome.ecosystem_stability =
                    [inf |-> FALSE,
                     one_over_sum_of |-> <<outcome.prey_cv, outcome.predator_cv>>]
             /\ \/ RLt(Zero, outcome.prey_cv.sqrt)
                \/ RLt(Zero, outcome.predator_cv.sqrt)

\* both series are constant over several rows and the score is infinite
C20_BothConstant ==
    /\ fn = Metrics
    /\ pc = "returned"
    /\ Len(args.results) >= 4
    /\ \A k \in 1..Len(args.results) : args.results[k] = args.results[1]
    /\ args.results[1] = <<One, One>>
    /\ outcome.ecosystem_stability = Infinite

\* the series is constant
Flat(x) == \A k \in 1..Len(x) : x[k] = x[1]

\* C21: the coefficient of variation of a species is std/mean when mean > 0
\* and 0 whenever mean <= 0; no division by a zero mean takes place.
C21_CoefficientOfVariation ==
    (fn = Metrics /\ pc = "returned") =>
        /\ outcome.prey_cv =
               IF RLt(Zero, outcome.prey_mean)
               THEN Sqrt(RDiv(outcome.prey_std.sqrt,
                              RMul(outcome.prey_mean, outcome.prey_mean)))
               ELSE Sqrt(Zero)
        /\ outcome.predator_cv =
               IF RLt(Zero, outcome.predator_mean)
               THEN Sqrt(RDiv(outcome.predator_std.sqrt,
                              RMul(outcome.predator_mean, outcome.predator_mean)))
               ELSE Sqrt(Zero)
        /\ outcome.prey_mean = Mean(Column(args.results, 1))
        /\ outcome.predator_mean = Mean(Column(args.results, 2))
        /\ outcome.prey_std.sqrt[2] > 0
        /\ outcome.prey_cv.sqrt[2] > 0
        /\ outcome.predator_cv.sqrt[2] > 0

\* a varying prey series with a negative mean, and a varying predator series
\* with a positive one
C21_NegativeMean ==
    /\ fn = Metrics
    /\ pc = "returned"
    /\ RLt(outcome.prey_mean, Zero)
    /\ RLt(Zero, outcome.prey_std.sqrt)
    /\ outcome.prey_cv = Sqrt(Zero)
    /\ RLt(Zero, outcome.predator_mean)
    /\ RLt(Zero, outcome.predator_cv.sqrt)

\* C29: in every metrics record two peaks of a species are never at
\* adjacent indices: consecutive peak indices differ by at least 2, a series
\* of length n has at most floor((n-1)/2) peaks, a non-zero period estimate
\* is at least 2 and a non-zero phase difference at least 1.
C29_PeaksApart ==
    (fn = Metrics /\ pc = "returned") =>
        LET n == Len(args.results)
        IN  /\ \A k \in 1..(Len(locals.prey_peaks) - 1) :
                   locals.prey_peaks[k + 1][1] - locals.prey_peaks[k][1] >= 2
            /\ \A k \in 1..(Len(locals.predator_peaks) - 1) :
                   locals.predator_peaks[k + 1][1] - locals.predator_peaks[k][1] >= 2
            /\ outcome.prey_peaks_count <= (n - 1) \div 2
            /\ outcome.predator_peaks_count <= (n - 1) \div 2
            /\ outcome.prey_period # Zero => RLe(R(2), outcome.prey_period)
            /\ outcome.predator_period # Zero => RLe(R(2), outcome.predator_period)
            /\ outcome.phase_difference # 0 => outcome.phase_difference >= 1

\* as many peaks as a series of 7 samples can hold, two samples apart, the
\* predator peaking one sample after the prey
C29_Densest ==
    /\ fn = Metrics
    /\ pc = "returned"
    /\ Len(args.results) = 7
    /\ outcome.prey_peaks_count = 3
    /\ outcome.prey_period = R(2)
    /\ outcome.phase_difference = 1

\* C30 as stated: the stability score is infinite only when neither species
\* varies; with at least one non-constant series the score is finite,
\* whatever the sign of the means.
C30_InfiniteOnlyConstant ==
    (fn = Metrics /\ pc = "returned") =>
        (outcome.ecosystem_stability = Infinite =>
            Flat(Column(args.results, 1)) /\ Flat(Column(args.results, 2)))

\* a series contributes to the sum of the CVs: it varies and its mean is
\* positive
Contributes(x) == ~Flat(x) /\ RLt(Zero, Mean(x))

\* C30 amended: the stability score is infinite exactly when no series
\* varies around a positive mean; a non-constant series whose mean is zero
\* or negative has a CV of 0 and does not make the score finite.
C30_InfiniteWithoutPositiveMean ==
    (fn = Metrics /\ pc = "returned") =>
        (outcome.ecosystem_stability = Infinite <=>
            (~Contributes(Column(args.results, 1))
                /\ ~Contributes(Column(args.results, 2))))

\* the prey varies around a negative mean, the predator is constant, and
\* the score is infinite
C30_VaryingYetInfinite ==
    /\ fn = Metrics
    /\ pc = "returned"
    /\ ~Flat(Column(args.results, 1))
    /\ RLt(Mean(Column(args.results, 1)), Zero)
    /\ Flat(Column(args.results, 2))
    /\ outcome.ecosystem_stability = Infinite

=============================================================================
